---- MODULE Spec2Model ----
(***************************************************************************)
(* Model of rqt_service_caller's ServiceCallerWidget                       *)
(* (src/src/rqt_service_caller/service_caller_widget.py).                  *)
(*                                                                         *)
(* Strings that the code slices or searches are sequences of tokens:       *)
(*   - a topic name / path such as "/svc/items[0]/x" is                    *)
(*       << "/", "svc", "/", "items", "[", "0", "]", "/", "x" >>           *)
(*     (separators "/", "[", "]" are tokens of their own, so the code's    *)
(*     substring test and split('/') act on them as they act on the text); *)
(*   - a type name such as "demo/Item[]" is << "demo/Item", "[]" >>, so    *)
(*     text[-2:] == "[]" and text[:-2] are the last token and the rest.    *)
(* Expression texts and Python str values are plain strings.               *)
(*                                                                         *)
(* Python values: [int |-> n], [str |-> s], [list |-> <<...>>] and, for a  *)
(* genpy message instance, [_type |-> T, fields |-> [slot |-> value]].     *)
(***************************************************************************)
EXTENDS Integers, Sequences, FiniteSets, TLC

VARIABLES
    services,       \* keys of self._services (= items of service_combo_box)
    current,        \* current text of service_combo_box (<<>> when empty)
    service_info,   \* self._service_info (None, or the session dict)
    request_tree,   \* items of self.request_tree_widget, in creation order
    response_tree,  \* items of self.response_tree_widget, in creation order
    request,        \* the request built by the last invocation (None before)
    diag,           \* qWarning texts emitted by the last handler (class load
                    \* failures of a refresh are not recorded)
    calls,          \* number of invocations in a row up to now (saturating)
    edits,          \* number of user edits since the last selection (bounded)
    lastOp          \* the handler that ran last

vars == << services, current, service_info, request_tree, response_tree,
           request, diag, calls, edits, lastOp >>

----------------------------------------------------------------------------
(* Bounds of the model *)

\* largest number of children Add Child may give one array item
MaxChildren == 1
\* largest number of items in one tree
MaxItems == 8
\* user edits explored per session
MaxEdits == 1
\* invocations counted (the counter saturates here)
MaxCalls == 2
\* largest value of the counter argument tried on fill_message_slots
MaxCounter == 4
\* largest number of items in the request tree when it is explored on its own
MaxTreeItems == 10

----------------------------------------------------------------------------
(* Python values *)

None == [none |-> TRUE]
IntV(n) == [int |-> n]
StrV(s) == [str |-> s]
ListV(q) == [list |-> q]

IsInt(v) == DOMAIN v = {"int"}
IsStr(v) == DOMAIN v = {"str"}
IsList(v) == DOMAIN v = {"list"}
\* hasattr(message, '__slots__')
HasSlots(v) == "_type" \in DOMAIN v

----------------------------------------------------------------------------
(* The message classes known to roslib / rosservice (the type bridge).     *)

IntTypes == { <<"int32">>, <<"int64">>, <<"uint32">> }

MsgTypes == { <<"demo/AddTwoIntsRequest">>, <<"demo/AddTwoIntsResponse">>,
              <<"demo/SvcRequest">>, <<"demo/SvcResponse">>,
              <<"demo/Hdr">>, <<"demo/Item">>, <<"demo/Sub">> }

\* message.__slots__
Slots(t) ==
    CASE t = <<"demo/AddTwoIntsRequest">>  -> << "a", "b" >>
      [] t = <<"demo/AddTwoIntsResponse">> -> << "sum" >>
      [] t = <<"demo/SvcRequest">>         -> << "n", "hdr", "items" >>
      [] t = <<"demo/SvcResponse">>        -> << "ok", "out" >>
      [] t = <<"demo/Hdr">>                -> << "tag" >>
      [] t = <<"demo/Item">>               -> << "x", "sub" >>
      [] t = <<"demo/Sub">>                -> << "y" >>

\* message._slot_types
SlotTypes(t) ==
    CASE t = <<"demo/AddTwoIntsRequest">>  -> << <<"int64">>, <<"int64">> >>
      [] t = <<"demo/AddTwoIntsResponse">> -> << <<"int64">> >>
      [] t = <<"demo/SvcRequest">>         ->
             << <<"uint32">>, <<"demo/Hdr">>, <<"demo/Item", "[]">> >>
      [] t = <<"demo/SvcResponse">>        ->
             << <<"int32">>, <<"demo/Item", "[]">> >>
      [] t = <<"demo/Hdr">>                -> << <<"string">> >>
      [] t = <<"demo/Item">>               -> << <<"int32">>, <<"demo/Sub", "[]">> >>
      [] t = <<"demo/Sub">>                -> << <<"int32">> >>

\* text[-2:] == "[]"
EndsWithBrackets(t) == Len(t) > 0 /\ t[Len(t)] = "[]"
\* text[:-2]
StripBrackets(t) == SubSeq(t, 1, Len(t) - 1)

RECURSIVE Construct(_)
RECURSIVE ConstructFields(_, _)
\* the value genpy's generated __init__ gives a slot of type st
DefaultOf(st) ==
    IF EndsWithBrackets(st) THEN ListV(<<>>)
    ELSE IF st \in IntTypes THEN IntV(0)
    ELSE IF st = <<"string">> THEN StrV("")
    ELSE Construct(st)
ConstructFields(t, k) ==
    IF k = 0 THEN << >>
    ELSE (Slots(t)[k] :> DefaultOf(SlotTypes(t)[k])) @@ ConstructFields(t, k - 1)
\* roslib.message.get_message_class(t)()  /  request_class()
Construct(t) == [_type |-> t, fields |-> ConstructFields(t, Len(Slots(t)))]

\* the services the ROS master can report, with their service classes
SvcAdd == << "/", "add_two_ints" >>
SvcItems == << "/", "svc" >>
AllServices == { SvcAdd, SvcItems }
\* service_class._request_class._type
RequestType(s) ==
    IF s = SvcAdd THEN <<"demo/AddTwoIntsRequest">> ELSE <<"demo/SvcRequest">>
ResponseType(s) ==
    IF s = SvcAdd THEN <<"demo/AddTwoIntsResponse">> ELSE <<"demo/SvcResponse">>

----------------------------------------------------------------------------
(* Text helpers *)

\* str(i) / '%d' % i
Str(i) == ToString(i)

\* repr(value) of a leaf value
Repr(v) ==
    IF IsInt(v) THEN ToString(v.int)
    ELSE IF IsStr(v) THEN "'" \o v.str \o "'"
    ELSE "[]"

\* the index of the last "/" token of p (0 when there is none)
LastSlash(p) ==
    LET S == { k \in 1..Len(p) : p[k] = "/" }
    IN  IF S = {} THEN 0 ELSE CHOOSE k \in S : \A j \in S : j <= k
\* topic_name.split('/')[-1]
LastSegment(p) == SubSeq(p, LastSlash(p) + 1, Len(p))

\* needle in key   (Python substring test on str)
Contains(key, needle) ==
    \E k \in 0..(Len(key) - Len(needle)) :
        SubSeq(key, k + 1, k + Len(needle)) = needle

----------------------------------------------------------------------------
(* Tree items.  A tree widget is the sequence of its QTreeWidgetItems in   *)
(* creation order; `parent' is the index of the parent item (0 for a top   *)
(* level item).  Children of an item are always appended, so the children  *)
(* of an item, in child order, are the items naming it, in index order.    *)

\* QTreeWidgetItem(parent) with the texts, data and flags of lines 141-156;
\* an unset column reads as the empty text
NewItem(parent, topic_name, type_name, is_editable) ==
    [ text0    |-> IF parent = 0 THEN topic_name ELSE LastSegment(topic_name),
      type     |-> type_name,
      expr     |-> "",
      data     |-> topic_name,
      editable |-> is_editable,
      parent   |-> parent ]

\* item.childCount()
ChildCount(tree, idx) == Cardinality({ k \in 1..Len(tree) : tree[k].parent = idx })

\* type_name.split('[', 1)[0]
BeforeBracket(t) ==
    LET S == { k \in 1..Len(t) : t[k] = "[]" }
    IN  IF S = {} THEN t
        ELSE SubSeq(t, 1, (CHOOSE k \in S : \A j \in S : k <= j) - 1)

RECURSIVE CreateItems(_, _, _, _, _, _)
RECURSIVE CreateSlotItems(_, _, _, _, _, _)
RECURSIVE CreateElemItems(_, _, _, _, _, _, _)

\* the loop of lines 159-160, from slot k on
CreateSlotItems(tree, idx, topic_name, message, k, is_editable) ==
    IF k > Len(Slots(message._type)) THEN tree
    ELSE LET slot_name == Slots(message._type)[k]
             sub == CreateItems(tree, idx, topic_name \o << "/", slot_name >>,
                                SlotTypes(message._type)[k],
                                message.fields[slot_name], is_editable)
         IN  CreateSlotItems(sub, idx, topic_name, message, k + 1, is_editable)

\* the loop of lines 164-165, from element k on (index = k - 1)
CreateElemItems(tree, idx, topic_name, type_name, elems, k, is_editable) ==
    IF k > Len(elems) THEN tree
    ELSE LET sub == CreateItems(tree, idx, topic_name \o << "[", Str(k - 1), "]" >>,
                                type_name, elems[k], is_editable)
         IN  CreateElemItems(sub, idx, topic_name, type_name, elems, k + 1, is_editable)

\* _recursive_create_widget_items(parent, topic_name, type_name, message,
\* is_editable): `tree' with the new item and its descendants appended
CreateItems(tree, parent, topic_name, type_name, message, is_editable) ==
    LET idx  == Len(tree) + 1
        base == Append(tree, NewItem(parent, topic_name, type_name, is_editable))
    IN  IF HasSlots(message)
        THEN CreateSlotItems(base, idx, topic_name, message, 1, is_editable)
        ELSE IF IsList(message) /\ Len(message.list) > 0 /\ HasSlots(message.list[1])
        THEN CreateElemItems(base, idx, topic_name, BeforeBracket(type_name),
                             message.list, 1, is_editable)
        ELSE [base EXCEPT ![idx].expr = Repr(message)]

----------------------------------------------------------------------------
(* Expression evaluation (lines 275-300) *)

\* the decimal literals among the model's texts, and the int each denotes
IsLiteral(s) == s \in { "0", "1", "2", "3", "40", "-5" }
LiteralValue(s) ==
    CASE s = "0" -> 0 [] s = "1" -> 1 [] s = "2" -> 2 [] s = "3" -> 3
      [] s = "40" -> 40 [] s = "-5" -> 0 - 5

\* eval(expression, {}, self._eval_locals) with _eval_locals['i'] = i:
\* [ok |-> TRUE, value |-> v], or [ok |-> FALSE] when eval raises.
\* The texts the model uses: decimal literals, "i * 2", "''", "[]" and the
\* syntactically invalid "][" (any other text is taken to raise).
Eval(expression, i) ==
    IF IsLiteral(expression) THEN [ok |-> TRUE, value |-> IntV(LiteralValue(expression))]
    ELSE IF expression = "i * 2" THEN [ok |-> TRUE, value |-> IntV(i * 2)]
    ELSE IF expression = "''" THEN [ok |-> TRUE, value |-> StrV("")]
    ELSE IF expression = "[]" THEN [ok |-> TRUE, value |-> ListV(<< >>)]
    ELSE [ok |-> FALSE]

\* list(s) for a str s: the list of its characters
Chars(s) ==
    IF s = "" THEN << >>
    ELSE IF s = "][" THEN << StrV("]"), StrV("[") >>
    ELSE << StrV(s) >>

\* lines 264-268: slot._type when the slot has one, else type(slot)
SlotTypeOf(slot) ==
    IF HasSlots(slot) THEN slot._type
    ELSE IF IsInt(slot) THEN <<"int">>
    ELSE IF IsStr(slot) THEN <<"str">>
    ELSE <<"list">>

\* slot_type(value): [ok |-> TRUE, value |-> v], or [ok |-> FALSE] when the
\* call raises (ValueError, TypeError; a _type string is not callable)
Convert(slot_type, value) ==
    IF slot_type = <<"int">> THEN
        IF IsInt(value) THEN [ok |-> TRUE, value |-> value]
        ELSE IF IsStr(value) /\ IsLiteral(value.str)
             THEN [ok |-> TRUE, value |-> IntV(LiteralValue(value.str))]
        ELSE [ok |-> FALSE]
    ELSE IF slot_type = <<"str">> THEN
        IF IsStr(value) THEN [ok |-> TRUE, value |-> value]
        ELSE [ok |-> TRUE, value |-> StrV(Repr(value))]
    ELSE IF slot_type = <<"list">> THEN
        IF IsList(value) THEN [ok |-> TRUE, value |-> value]
        ELSE IF IsStr(value) THEN [ok |-> TRUE, value |-> ListV(Chars(value.str))]
        ELSE [ok |-> FALSE]
    ELSE [ok |-> FALSE]

\* (mutant) the unconverted value is returned when the conversion fails
EvaluateExpressionMutantNoCheck(expression, slot_type, i) ==
    LET ev    == Eval(expression, i)
        value == IF ev.ok THEN ev.value ELSE StrV(expression)
        cv    == Convert(slot_type, value)
    IN  [value |-> IF cv.ok THEN cv.value ELSE value, diag |-> << >>]
\* _evaluate_expression(expression, slot_type) with _eval_locals['i'] = i:
\* the returned value (None on failure) and the warnings it emits
EvaluateExpression(expression, slot_type, i) ==
    LET ev    == Eval(expression, i)
        value == IF ev.ok THEN ev.value ELSE StrV(expression)
        cv    == Convert(slot_type, value)
    IN  IF cv.ok THEN [value |-> cv.value, diag |-> << >>]
        ELSE IF ev.ok
        THEN [value |-> None,
              diag  |-> << [warn |-> "can not convert expression to slot type",
                            slot_type |-> slot_type] >>]
        ELSE [value |-> None,
              diag  |-> << [warn |-> "failed to evaluate expression",
                            expression |-> expression] >>]

----------------------------------------------------------------------------
(* Message reconstruction (lines 228-273).  The code mutates `message' in  *)
(* place; here each operator returns the mutated message, the warnings     *)
(* emitted, in order, and whether an exception escaped.                    *)

\* get_message_class(t) is None for a name that is no message type, and
\* calling None raises TypeError
IsMessageClass(t) == t \in MsgTypes

\* index of slot_name in message.__slots__ (line 245)
SlotIndex(message, slot_name) ==
    CHOOSE a \in 1..Len(Slots(message._type)) : Slots(message._type)[a] = slot_name

\* (mutant) the scan looks for index i + 1 where the code looks for i
SlotStrMutantOffByOne(slot_key, i) == slot_key \o << "[", Str(i + 1), "]" >>
\* line 237
SlotStr(slot_key, i) == slot_key \o << "[", Str(i), "]" >>

\* lines 239-241: some key of the dict has slotstr as a substring
VecFound(expressions, slotstr) ==
    \E key \in DOMAIN expressions : Contains(key, slotstr)

\* the counter handed to the reconstruction of a grown array element (line 248)
ElementCounter(counter) == 0

RECURSIVE FillMessageSlots(_, _, _, _)
RECURSIVE FillFrom(_, _, _, _, _, _)
RECURSIVE GrowVec(_, _, _, _, _, _)

\* (mutant) a do-while: one element is appended before the first test
GrowVecMutantDoWhile(message, slot_name, slot_key, expressions, i, counter) ==
    LET tmp_vec == message.fields[slot_name]
        vector_type ==
            StripBrackets(SlotTypes(message._type)[SlotIndex(message, slot_name)])
    IN  IF IsList(tmp_vec) /\ IsMessageClass(vector_type)
        THEN [msg |-> [message EXCEPT !.fields[slot_name] =
                           ListV(Append(tmp_vec.list, Construct(vector_type)))],
              diag |-> << >>, raised |-> FALSE]
        ELSE [msg |-> message, diag |-> << >>, raised |-> FALSE]
\* the while loop of lines 235-252 for one slot, from index i on
GrowVec(message, slot_name, slot_key, expressions, i, counter) ==
    LET slotstr == SlotStr(slot_key, i)
    IN  IF ~VecFound(expressions, slotstr)
        THEN [msg |-> message, diag |-> << >>, raised |-> FALSE]
        ELSE
          LET vector_type ==
                  StripBrackets(SlotTypes(message._type)[SlotIndex(message, slot_name)])
              tmp_vec == message.fields[slot_name]
          IN  IF ~IsMessageClass(vector_type) \/ ~IsList(tmp_vec)
              THEN [msg |-> message, diag |-> << >>, raised |-> TRUE]
              ELSE
                LET el   == FillMessageSlots(Construct(vector_type), slotstr,
                                             expressions, ElementCounter(counter))
                    grown == [message EXCEPT
                                 !.fields[slot_name] = ListV(Append(tmp_vec.list, el.msg))]
                    rest == GrowVec(grown, slot_name, slot_key, expressions, i + 1, counter)
                IN  IF el.raised THEN [msg |-> message, diag |-> el.diag, raised |-> TRUE]
                    ELSE [msg |-> rest.msg, diag |-> el.diag \o rest.diag,
                          raised |-> rest.raised]

\* the for loop of lines 231-273, from slot k on
FillFrom(message, topic_name, expressions, counter, k, warned) ==
    IF k > Len(Slots(message._type))
    THEN [msg |-> message, diag |-> warned, raised |-> FALSE]
    ELSE
      LET slot_name == Slots(message._type)[k]
          slot_key  == topic_name \o << "/", slot_name >>
          g  == GrowVec(message, slot_name, slot_key, expressions, 0, counter)
          m1 == g.msg
          d1 == warned \o g.diag
      IN  IF g.raised THEN [msg |-> m1, diag |-> d1, raised |-> TRUE]
          ELSE IF slot_key \notin DOMAIN expressions THEN
            LET r == FillMessageSlots(m1.fields[slot_name], slot_key, expressions, counter)
                m2 == [m1 EXCEPT !.fields[slot_name] = r.msg]
            IN  IF r.raised THEN [msg |-> m2, diag |-> d1 \o r.diag, raised |-> TRUE]
                ELSE FillFrom(m2, topic_name, expressions, counter, k + 1, d1 \o r.diag)
          ELSE IF expressions[slot_key] = "" THEN
            FillFrom(m1, topic_name, expressions, counter, k + 1, d1)
          ELSE
            LET ev == EvaluateExpression(expressions[slot_key],
                                         SlotTypeOf(m1.fields[slot_name]), counter)
                m2 == IF ev.value # None
                      THEN [m1 EXCEPT !.fields[slot_name] = ev.value]
                      ELSE m1
            IN  FillFrom(m2, topic_name, expressions, counter, k + 1, d1 \o ev.diag)

\* fill_message_slots(message, topic_name, expressions, counter)
FillMessageSlots(message, topic_name, expressions, counter) ==
    IF ~HasSlots(message) THEN [msg |-> message, diag |-> << >>, raised |-> FALSE]
    ELSE FillFrom(message, topic_name, expressions, counter, 1, << >>)

----------------------------------------------------------------------------
(* The session and the handlers *)

\* (mutant) a new session starts with counter 1
NewSessionMutantCounterOne(service_name) ==
    [ service_name  |-> service_name,
      service_class |-> service_name,
      expressions   |-> << >>,
      counter       |-> 1 ]
\* lines 121-126
NewSession(service_name) ==
    [ service_name  |-> service_name,
      service_class |-> service_name,
      expressions   |-> << >>,
      counter       |-> 0 ]

\* (mutant) the expressions of the previous session are kept (merged)
IndexChangedMutantMerge(info, service_name) ==
    IF service_name = << >>
    THEN [info |-> info, req |-> << >>, resp |-> << >>]
    ELSE [info |-> IF info = None THEN NewSession(service_name)
                   ELSE [NewSession(service_name) EXCEPT
                            !.expressions = info.expressions],
          req  |-> CreateItems(<< >>, 0, service_name, RequestType(service_name),
                               Construct(RequestType(service_name)), TRUE),
          resp |-> << >>]
\* on_service_combo_box_currentIndexChanged(service_name), as a function of
\* self._service_info: the new _service_info and the two trees
IndexChanged(info, service_name) ==
    IF service_name = << >>
    THEN [info |-> info, req |-> << >>, resp |-> << >>]
    ELSE [info |-> NewSession(service_name),
          req  |-> CreateItems(<< >>, 0, service_name, RequestType(service_name),
                               Construct(RequestType(service_name)), TRUE),
          resp |-> << >>]

\* sorted(self._services.keys())[0]
FirstSorted(names) == IF SvcAdd \in names THEN SvcAdd ELSE SvcItems

\* on_refresh_services_button_clicked(), with the signals the combo box emits:
\* clear() emits currentIndexChanged('') when an entry was current, and
\* addItems() on the then empty box makes the first entry current.
\* `loaded' are the services the master reports whose class loads (a service
\* whose class fails to load is left out of self._services, lines 105-108).
RefreshResult(info, req, resp, cur, loaded) ==
    LET c1 == IF cur # << >> THEN IndexChanged(info, << >>)
              ELSE [info |-> info, req |-> req, resp |-> resp]
    IN  IF loaded = {} THEN c1 @@ [cur |-> << >>]
        ELSE IndexChanged(c1.info, FirstSorted(loaded)) @@ [cur |-> FirstSorted(loaded)]

Init ==
    \E loaded \in SUBSET AllServices :
        LET r == RefreshResult(None, << >>, << >>, << >>, loaded)
        IN  /\ services = loaded
            /\ current = r.cur
            /\ service_info = r.info
            /\ request_tree = r.req
            /\ response_tree = r.resp
            /\ request = None
            /\ diag = << >>
            /\ calls = 0
            /\ edits = 0
            /\ lastOp = "init"

Refresh ==
    \E loaded \in SUBSET AllServices :
        LET r == RefreshResult(service_info, request_tree, response_tree, current, loaded)
        IN  /\ services' = loaded
            /\ current' = r.cur
            /\ service_info' = r.info
            /\ request_tree' = r.req
            /\ response_tree' = r.resp
            /\ request' = None
            /\ diag' = << >>
            /\ edits' = IF loaded = {} THEN edits ELSE 0
            /\ lastOp' = "refresh"
            /\ calls' = 0

\* the user makes another entry of the combo box current
SelectService ==
    \E service_name \in services :
        /\ service_name # current
        /\ LET r == IndexChanged(service_info, service_name)
           IN  /\ service_info' = r.info
               /\ request_tree' = r.req
               /\ response_tree' = r.resp
        /\ current' = service_name
        /\ request' = None
        /\ diag' = << >>
        /\ edits' = 0
        /\ lastOp' = "select"
        /\ UNCHANGED << services >>
        /\ calls' = 0

\* the expression texts a user types in the model
ExprTexts == { "", "2", "40", "][" }

\* (mutant) the entry is keyed by the item's display name, not its path
ItemChangedMutantDisplayName(expressions, item) ==
    (item.text0 :> item.expr) @@ expressions
\* request_tree_widget_itemChanged(item, column) for the 'expression' column
\* (lines 178-180), as a function of the expressions dict
ItemChanged(expressions, item) == (item.data :> item.expr) @@ expressions

\* the user edits the expression column of an item of the request tree; the
\* widget emits itemChanged only when the text differs from the one shown
EditExpression ==
    \E idx \in 1..Len(request_tree) : \E new_value \in ExprTexts :
        /\ edits < MaxEdits
        /\ request_tree[idx].editable
        /\ new_value # request_tree[idx].expr
        /\ request_tree' = [request_tree EXCEPT ![idx].expr = new_value]
        /\ service_info' =
               [service_info EXCEPT !.expressions =
                   ItemChanged(@, [request_tree[idx] EXCEPT !.expr = new_value])]
        /\ edits' = edits + 1
        /\ request' = None
        /\ diag' = << >>
        /\ lastOp' = "edit"
        /\ UNCHANGED << services, current, response_tree >>
        /\ calls' = 0

----------------------------------------------------------------------------
(* Context menu: Add Child (lines 368-379) *)

RECURSIVE PathName(_, _)
\* the loop of lines 371-375, started at prnt
PathName(tree, prnt) ==
    IF prnt = 0 THEN << >>
    ELSE PathName(tree, tree[prnt].parent) \o tree[prnt].text0 \o << "/" >>

\* line 377
NameStr(tree, idx) ==
    PathName(tree, tree[idx].parent) \o tree[idx].text0
        \o << "[", Str(ChildCount(tree, idx)), "]" >>

\* lines 376-379: the tree with the new element's items appended (addChild on
\* an item that already has this parent adds nothing more)
AddChildItems(tree, idx) ==
    CreateItems(tree, idx, NameStr(tree, idx), StripBrackets(tree[idx].type),
                Construct(StripBrackets(tree[idx].type)), TRUE)

RECURSIVE EmitItemChanged(_, _, _)
\* the itemChanged signals the request tree widget emits for the expression
\* column of items k..Len(tree), created while attached to the widget
\* (setText at line 168), each handled by request_tree_widget_itemChanged
EmitItemChanged(expressions, tree, k) ==
    IF k > Len(tree) THEN expressions
    ELSE EmitItemChanged(IF tree[k].expr # "" THEN ItemChanged(expressions, tree[k])
                         ELSE expressions,
                         tree, k + 1)

\* (mutant) the new items' initial texts are not recorded
AddChildExpressionsMutantSilent(expressions, tree, idx) == expressions
\* the expressions dict after Add Child on item idx of the request tree
AddChildExpressions(expressions, tree, idx) ==
    EmitItemChanged(expressions, AddChildItems(tree, idx), Len(tree) + 1)

CanAddChild(tree, idx) ==
    /\ EndsWithBrackets(tree[idx].type)
    /\ IsMessageClass(StripBrackets(tree[idx].type))
    /\ ChildCount(tree, idx) < MaxChildren
    /\ Len(AddChildItems(tree, idx)) <= MaxItems

AddChildRequest ==
    \E idx \in 1..Len(request_tree) :
        /\ CanAddChild(request_tree, idx)
        /\ request_tree' = AddChildItems(request_tree, idx)
        /\ service_info' =
               [service_info EXCEPT !.expressions =
                   AddChildExpressions(@, request_tree, idx)]
        /\ request' = None
        /\ diag' = << >>
        /\ lastOp' = "add_child"
        /\ UNCHANGED << services, current, response_tree, edits >>
        /\ calls' = 0

AddChildResponse ==
    \E idx \in 1..Len(response_tree) :
        /\ CanAddChild(response_tree, idx)
        /\ response_tree' = AddChildItems(response_tree, idx)
        /\ request' = None
        /\ diag' = << >>
        /\ lastOp' = "add_child_response"
        /\ UNCHANGED << services, current, service_info, request_tree, edits >>
        /\ calls' = 0

----------------------------------------------------------------------------
(* Context menu: Remove (lines 400-403) and Load message (lines 391-398) *)

\* lines 354 / 400: the item is a child of an array item
CanRemoveChild(tree, idx) ==
    /\ tree[idx].parent # 0
    /\ EndsWithBrackets(tree[tree[idx].parent].type)

\* line 402
RemoveWarning == [warn |-> "Removing not yet supported!"]

\* (mutant) Remove takes the item and its descendants out of the tree
RemoveChildItemsMutantDelete(tree, idx) == SubSeq(tree, 1, idx - 1)
\* lines 400-403: the tree after Remove on item idx
RemoveChildItems(tree, idx) == tree

\* Remove chosen on an element of an array of the request tree
RemoveChildRequest ==
    \E idx \in 1..Len(request_tree) :
        /\ CanRemoveChild(request_tree, idx)
        /\ request_tree' = RemoveChildItems(request_tree, idx)
        /\ diag' = << RemoveWarning >>
        /\ request' = None
        /\ lastOp' = "remove"
        /\ UNCHANGED << services, current, service_info, response_tree, edits >>
        /\ calls' = 0

\* Remove chosen on an element of an array of the response tree
RemoveChildResponse ==
    \E idx \in 1..Len(response_tree) :
        /\ CanRemoveChild(response_tree, idx)
        /\ response_tree' = RemoveChildItems(response_tree, idx)
        /\ diag' = << RemoveWarning >>
        /\ request' = None
        /\ lastOp' = "remove_response"
        /\ UNCHANGED << services, current, service_info, request_tree, edits >>
        /\ calls' = 0

\* the bag files the user may pick: the _type of each message stored under
\* the topic 'rqt_service_caller', in order
LoadBags == { << <<"demo/Hdr">>, <<"demo/Item">> >> }

\* line 396
MismatchWarning(should, is) ==
    [warn |-> "Types do not match!", should |-> should, is |-> is]
\* line 398
LoadWarning == [warn |-> "Loading files not yet supported!"]

RECURSIVE LoadMessages(_, _, _)
\* (mutant) a message of another type is skipped without a word
LoadMessagesMutantSilent(type_name, bag, k) ==
    IF k > Len(bag) THEN << >>
    ELSE IF bag[k] # type_name THEN << >>
    ELSE << LoadWarning >> \o LoadMessages(type_name, bag, k + 1)
\* the loop of lines 394-398 from message k on, for an item whose type
\* column reads type_name: the warnings it emits
LoadMessages(type_name, bag, k) ==
    IF k > Len(bag) THEN << >>
    ELSE IF bag[k] # type_name THEN << MismatchWarning(type_name, bag[k]) >>
    ELSE << LoadWarning >> \o LoadMessages(type_name, bag, k + 1)

\* lines 348-352: Load message is offered on an item that is no array
CanLoad(tree, idx) == ~EndsWithBrackets(tree[idx].type)

\* the type column of the items Load message is offered on
LoadableTypes(tree) == { tree[idx].type : idx \in { k \in 1..Len(tree) : CanLoad(tree, k) } }

\* Load message chosen on an item of either tree, with a bag file picked
LoadMessage ==
    \E type_name \in LoadableTypes(request_tree) \cup LoadableTypes(response_tree) :
    \E bag \in LoadBags :
        /\ diag' = LoadMessages(type_name, bag, 1)
        /\ request' = None
        /\ lastOp' = "load"
        /\ UNCHANGED << services, current, service_info, request_tree,
                        response_tree, edits >>
        /\ calls' = 0

\* Load message chosen and the file dialog cancelled: rosbag.Bag('', 'r')
\* raises at line 393
LoadCancelled ==
    /\ LoadableTypes(request_tree) \cup LoadableTypes(response_tree) # {}
    /\ diag' = << [warn |-> "uncaught exception"] >>
    /\ request' = None
    /\ lastOp' = "load"
    /\ UNCHANGED << services, current, service_info, request_tree,
                    response_tree, edits >>
    /\ calls' = 0

----------------------------------------------------------------------------
(* Invocation (lines 302-329) *)

\* the responses the remote service may send
Responses(service_name) ==
    IF service_name = SvcAdd
    THEN { [_type |-> <<"demo/AddTwoIntsResponse">>, fields |-> [sum |-> IntV(42)]] }
    ELSE { [_type |-> <<"demo/SvcResponse">>,
            fields |-> [ok |-> IntV(1), out |-> ListV(<< Construct(<<"demo/Item">>) >>)]] }

\* the messages of the rospy.ServiceException the proxy may raise
ServiceErrors == { "service not available" }

\* (mutant) the error node does not carry the exception's message
ErrorItemMutantNoMessage(e) ==
    [ text0    |-> << "ERROR" >>,
      type     |-> << "rospy.ServiceException" >>,
      expr     |-> "",
      data     |-> << >>,
      editable |-> FALSE,
      parent   |-> 0 ]
\* lines 317-320
ErrorItem(e) ==
    [ text0    |-> << "ERROR" >>,
      type     |-> << "rospy.ServiceException" >>,
      expr     |-> e,
      data     |-> << >>,
      editable |-> FALSE,
      parent   |-> 0 ]

\* (mutant) the previous request object is filled again instead of a new one
BuildRequestMutantReuse(info) ==
    FillMessageSlots(IF request # None /\ request._type = RequestType(info.service_class)
                     THEN request
                     ELSE Construct(RequestType(info.service_class)),
                     info.service_name, info.expressions, info.counter)
\* lines 306-307: the request built from the session
BuildRequest(info) ==
    FillMessageSlots(Construct(RequestType(info.service_class)), info.service_name,
                     info.expressions, info.counter)

\* on_call_service_button_clicked()
CallService ==
    /\ service_info # None
    /\ LET r == BuildRequest(service_info)
       IN  /\ request' = r.msg
           /\ IF r.raised
              THEN /\ response_tree' = << >>
                   /\ diag' = r.diag \o << [warn |-> "uncaught exception"] >>
              ELSE \/ \E e \in ServiceErrors :
                        /\ response_tree' = << ErrorItem(e) >>
                        /\ diag' = r.diag \o << [warn |-> "request"],
                                               [warn |-> "error calling service",
                                                error |-> e] >>
                   \/ \E response \in Responses(service_info.service_name) :
                        /\ response_tree' =
                               CreateItems(<< >>, 0, << "/" >>, response._type,
                                           response, FALSE)
                        /\ diag' = r.diag
    /\ calls' = IF calls < MaxCalls THEN calls + 1 ELSE calls
    /\ lastOp' = "call"
    /\ UNCHANGED << services, current, service_info, request_tree, edits >>

\* on_call_service_button_clicked() before any service was ever selected:
\* self._service_info is None and line 306 raises after line 304
CallWithoutSession ==
    /\ service_info = None
    /\ response_tree' = << >>
    /\ request' = None
    /\ diag' = << [warn |-> "uncaught exception"] >>
    /\ calls' = IF calls < MaxCalls THEN calls + 1 ELSE calls
    /\ lastOp' = "call"
    /\ UNCHANGED << services, current, service_info, request_tree, edits >>

Next ==
    \/ Refresh
    \/ SelectService
    \/ EditExpression
    \/ AddChildRequest
    \/ AddChildResponse
    \/ RemoveChildRequest
    \/ RemoveChildResponse
    \/ LoadMessage
    \/ LoadCancelled
    \/ CallService
    \/ CallWithoutSession

Spec == Init /\ [][Next]_vars

----------------------------------------------------------------------------
(* The request tree on its own: a third specification leaves out the       *)
(* invocation and the response tree, which gives room for Add Child on an  *)
(* array inside an element of an array.                                    *)

CanAddChildNested(tree, idx) ==
    /\ EndsWithBrackets(tree[idx].type)
    /\ IsMessageClass(StripBrackets(tree[idx].type))
    /\ ChildCount(tree, idx) < MaxChildren
    /\ Len(AddChildItems(tree, idx)) <= MaxTreeItems

\* Add Child chosen on an array item of the request tree
AddChildNested ==
    \E idx \in 1..Len(request_tree) :
        /\ CanAddChildNested(request_tree, idx)
        /\ request_tree' = AddChildItems(request_tree, idx)
        /\ service_info' =
               [service_info EXCEPT !.expressions =
                   AddChildExpressions(@, request_tree, idx)]
        /\ request' = None
        /\ diag' = << >>
        /\ lastOp' = "add_child"
        /\ calls' = 0
        /\ UNCHANGED << services, current, response_tree, edits >>

TreeNext ==
    \/ Refresh
    \/ SelectService
    \/ EditExpression
    \/ AddChildNested
    \/ RemoveChildRequest

TreeSpec == Init /\ [][TreeNext]_vars

----------------------------------------------------------------------------
(* fill_message_slots as a pure function: a second specification draws its *)
(* arguments (the service's default request, the service name, an          *)
(* expressions dict and a counter) and applies it once.                    *)

Absent == "<absent>"

\* the dict holding the pairs of `choice' whose text is not Absent
DictOf(choice) ==
    LET present == { k \in 1..Len(choice) : choice[k][2] # Absent }
    IN  [ key \in { choice[k][1] : k \in present } |->
            choice[CHOOSE k \in present : choice[k][1] = key][2] ]

KeyA     == SvcAdd \o << "/", "a" >>
KeyB     == SvcAdd \o << "/", "b" >>
KeyN     == SvcItems \o << "/", "n" >>
KeyTag   == SvcItems \o << "/", "hdr", "/", "tag" >>
KeyItems == SvcItems \o << "/", "items" >>
KeyX0    == SvcItems \o << "/", "items", "[", "0", "]", "/", "x" >>
KeyX1    == SvcItems \o << "/", "items", "[", "1", "]", "/", "x" >>
KeyX2    == SvcItems \o << "/", "items", "[", "2", "]", "/", "x" >>
KeyY00   == SvcItems \o << "/", "items", "[", "0", "]", "/", "sub", "[", "0", "]", "/", "y" >>

\* the dicts tried: every key is the path of a field of the service's request
FillDicts(service_name) ==
    IF service_name = SvcAdd
    THEN { DictOf(<< <<KeyA, ta>>, <<KeyB, tb>> >>) :
             ta \in { Absent, "2", "i * 2" }, tb \in { Absent, "40" } }
    ELSE { DictOf(<< <<KeyN, c[1]>>, <<KeyTag, c[2]>>, <<KeyItems, c[3]>>,
                     <<KeyX0, c[4]>>, <<KeyX1, c[5]>>, <<KeyX2, c[6]>>,
                     <<KeyY00, c[7]>> >>) :
             c \in { Absent, "-5", "i * 2", "][" } \X { Absent, "i * 2", "][" }
                   \X { Absent, "", "[]" } \X { Absent, "1", "i * 2" }
                   \X { Absent, "2" } \X { Absent, "3" } \X { Absent, "i * 2" } }

FillInit ==
    \E service_name \in AllServices :
    \E expressions \in FillDicts(service_name) :
    \E counter \in 0..MaxCounter :
        /\ services = { service_name }
        /\ current = service_name
        /\ service_info = [NewSession(service_name) EXCEPT
                               !.expressions = expressions, !.counter = counter]
        /\ request_tree = IndexChanged(None, service_name).req
        /\ response_tree = << >>
        /\ request = None
        /\ diag = << >>
        /\ calls = 0
        /\ edits = 0
        /\ lastOp = "init"

\* request = request_class(); fill_message_slots(request, service_name,
\* expressions, counter)
FillApply ==
    /\ lastOp = "init"
    /\ LET r == BuildRequest(service_info)
       IN  /\ request' = r.msg
           /\ diag' = r.diag \o (IF r.raised THEN << [warn |-> "uncaught exception"] >>
                                 ELSE << >>)
    /\ lastOp' = "fill"
    /\ UNCHANGED << services, current, service_info, request_tree, response_tree,
                    calls, edits >>

FillNext == FillApply

FillSpec == FillInit /\ [][FillNext]_vars

----------------------------------------------------------------------------
(* Properties *)

\* the expressions dict of the session
Expressions == service_info.expressions
Filled == lastOp = "fill"
\* field x of element k (from 0) of the request's items array
ItemX(k) == request.fields.items.list[k + 1].fields.x
ItemsLen == Len(request.fields.items.list)

DictGap == DictOf(<< <<KeyX0, "1">>, <<KeyX2, "3">> >>)

\* C1 (as stated): reconstructing a fresh default request with expressions
\* {items[0]/x: "1", items[2]/x: "3"} and no key for index 1 gives an items
\* array of length 3 with x = 1, x = default and x = 3.
C1_GapGivesThree ==
    (Filled /\ Expressions = DictGap) =>
        /\ ItemsLen = 3
        /\ ItemX(0) = IntV(1) /\ ItemX(1) = IntV(0) /\ ItemX(2) = IntV(3)

\* C1 (amended): with those expressions the growth scan stops at the missing
\* index 1: the items array has length 1 and its element 0 has x = 1; the key
\* for index 2 is never used.
C1_GapStopsScan ==
    (Filled /\ Expressions = DictGap) =>
        /\ ItemsLen = 1
        /\ ItemX(0) = IntV(1)
        /\ request.fields.items.list[1].fields.sub = ListV(<< >>)
        /\ request.fields.n = IntV(0)
        /\ diag = << >>

C1_Witness == Filled /\ Expressions = DictGap /\ request # None

\* C2: a uint32 leaf (SvcRequest.n) whose expression evaluates to a negative
\* value ("-5") is assigned 0 by reconstruction.
C2_UnsignedClamp ==
    (Filled /\ KeyN \in DOMAIN Expressions /\ Expressions[KeyN] = "-5") =>
        request.fields.n = IntV(0)


Has(key, text) == key \in DOMAIN Expressions /\ Expressions[key] = text
Counter == service_info.counter
EvalFailed(expression) ==
    [warn |-> "failed to evaluate expression", expression |-> expression]

\* C5: an expression that cannot be evaluated ("][") is used as literal text
\* (a string leaf takes it); on an integer leaf the coercion fails, the field
\* keeps its value, one diagnostic is emitted, no exception escapes and the
\* fields after it are still processed.
C5_FailuresDegrade ==
    Filled =>
        /\ Has(KeyTag, "][") => request.fields.hdr.fields.tag = StrV("][")
        /\ diag = IF Has(KeyN, "][") THEN << EvalFailed("][") >> ELSE << >>
        /\ Has(KeyN, "][") =>
             /\ request.fields.n = IntV(0)
             /\ Has(KeyTag, "i * 2") =>
                    request.fields.hdr.fields.tag = StrV(ToString(2 * Counter))
             /\ (Has(KeyX0, "1") /\ ~Has(KeyItems, "[]")) =>
                    (ItemsLen >= 1 /\ ItemX(0) = IntV(1))

C5_Witness ==
    /\ Filled /\ Has(KeyN, "][") /\ Has(KeyTag, "][") /\ Has(KeyX0, "1")
    /\ request.fields.n = IntV(0)
    /\ request.fields.hdr.fields.tag = StrV("][")
    /\ ItemsLen = 1
    /\ diag # << >>

\* C6: every expression evaluated during one reconstruction sees i = counter,
\* at the top level, in nested records and inside grown array elements.
C6_OneCounterEverywhere ==
    Filled =>
        /\ Has(KeyA, "i * 2") => request.fields.a = IntV(2 * Counter)
        /\ Has(KeyN, "i * 2") => request.fields.n = IntV(2 * Counter)
        /\ Has(KeyTag, "i * 2") =>
               request.fields.hdr.fields.tag = StrV(ToString(2 * Counter))
        /\ (Has(KeyX0, "i * 2") /\ ~Has(KeyItems, "[]")) =>
               ItemX(0) = IntV(2 * Counter)


----------------------------------------------------------------------------
(* Properties of the session (specification Spec) *)

Called == lastOp = "call" /\ request # None
PrimitiveTypes == IntTypes \cup { <<"string">> }
\* item j of the request tree has no children
IsLeaf(j) == ChildCount(request_tree, j) = 0

RECURSIVE FieldOfItem(_, _)
\* the value, in message msg, of the field item j of the request tree was
\* projected from: the fields named by the display names from the root down
FieldOfItem(msg, j) ==
    IF request_tree[j].parent = 0 THEN msg
    ELSE FieldOfItem(msg, request_tree[j].parent).fields[request_tree[j].text0[1]]

\* the value the text denotes for a leaf of primitive type t
Denoted(t, text) == IF t \in IntTypes THEN IntV(LiteralValue(text)) ELSE StrV(text)
Coercible(t, text) == text # "" /\ (t \in IntTypes => IsLiteral(text))

\* item j shows the text projection gave it
Untouched(j) ==
    request_tree[j].expr =
        IF IsLeaf(j) THEN Repr(DefaultOf(request_tree[j].type)) ELSE ""

\* the request tree is as projected on selection, but for primitive leaves
\* whose text the user replaced by an empty or a coercible one
OnlyLeafEdits ==
    \A j \in 1..Len(request_tree) :
        /\ ~Contains(request_tree[j].data, << "[" >>)
        /\ \/ Untouched(j)
           \/ /\ request_tree[j].type \in PrimitiveTypes
              /\ \/ request_tree[j].expr = ""
                 \/ Coercible(request_tree[j].type, request_tree[j].expr)

\* C3: the path is a stable join key: when the user has edited only primitive
\* leaves projected on selection, the invocation assigns each coerced value
\* to the very field its leaf was projected from and leaves every other
\* field at its default.
C3_PathJoinsLeafAndField ==
    (Called /\ OnlyLeafEdits) =>
        \A j \in 1..Len(request_tree) :
            IsLeaf(j) =>
                FieldOfItem(request, j) =
                    IF Untouched(j) \/ request_tree[j].expr = ""
                    THEN DefaultOf(request_tree[j].type)
                    ELSE Denoted(request_tree[j].type, request_tree[j].expr)

C3_Witness ==
    /\ Called /\ OnlyLeafEdits
    /\ current = SvcAdd
    /\ request_tree[3].expr = "40"
    /\ Has(KeyB, "40")
    /\ request.fields = [a |-> IntV(0), b |-> IntV(40)]

RECURSIVE AllDefault(_)
\* every field of the value, at every depth, has its default and every
\* array is empty
AllDefault(v) ==
    IF IsInt(v) THEN v.int = 0
    ELSE IF IsStr(v) THEN v.str = ""
    ELSE IF IsList(v) THEN v.list = << >>
    ELSE \A f \in DOMAIN v.fields : AllDefault(v.fields[f])

\* C4: with an empty expressions dict every invocation builds a request whose
\* fields all have their defaults and whose arrays are empty, however many
\* invocations came before.
C4_EmptyDictGivesDefaults ==
    (Called /\ Expressions = << >>) =>
        /\ AllDefault(request)
        /\ request._type = RequestType(service_info.service_name)
        /\ DOMAIN request.fields =
               { Slots(request._type)[k] : k \in 1..Len(Slots(request._type)) }

C4_Witness ==
    /\ Called /\ Expressions = << >> /\ calls >= 2
    /\ service_info.service_name = SvcItems
    /\ AllDefault(request)

Failure(e) == [warn |-> "error calling service", error |-> e]
InDiag(w, d) == \E k \in 1..Len(d) : d[k] = w

\* C7: when the call handle fails, the handler ends normally and the response
\* tree holds exactly one top-level node, the error node with the failure
\* message, whatever it showed before; request tree, expressions and counter
\* are unchanged.
C7_FailureIsSurfaced ==
    [][ \A e \in ServiceErrors :
          (lastOp' = "call" /\ InDiag(Failure(e), diag')) =>
            /\ ~InDiag([warn |-> "uncaught exception"], diag')
            /\ Len(response_tree') = 1
            /\ response_tree'[1].text0 = << "ERROR" >>
            /\ response_tree'[1].expr = e
            /\ response_tree'[1].parent = 0
            /\ request_tree' = request_tree
            /\ service_info' = service_info ]_vars

C7_Witness ==
    /\ lastOp = "call" /\ calls >= 2
    /\ \E e \in ServiceErrors : InDiag(Failure(e), diag)
    /\ Len(response_tree) = 1
    /\ response_tree[1].text0 = << "ERROR" >>

\* C8: after a selection change to a service, the session has an empty
\* expressions dict, counter 0 and the request tree projected from the
\* default request of that service, whatever happened before.
C8_SelectionReplacesSession ==
    (lastOp \in { "select", "refresh" } /\ current # << >>) =>
        /\ service_info # None
        /\ service_info.service_name = current
        /\ service_info.expressions = << >>
        /\ service_info.counter = 0
        /\ request_tree =
               CreateItems(<< >>, 0, current, RequestType(current),
                           Construct(RequestType(current)), TRUE)
        /\ \A j \in 1..Len(request_tree) :
               IsLeaf(j) => request_tree[j].expr = Repr(DefaultOf(request_tree[j].type))

C8_Witness ==
    /\ lastOp = "select"
    /\ current = SvcAdd /\ services = AllServices
    /\ service_info.expressions = << >>
    /\ Len(request_tree) = 3

\* C9: an invocation changes neither the expressions dict nor the request
\* tree, and two consecutive invocations build equal requests.
C9_InvocationKeepsSession ==
    [][ lastOp' = "call" =>
          /\ service_info' = service_info
          /\ request_tree' = request_tree
          /\ lastOp = "call" => request' = request ]_vars

C9_Witness ==
    /\ Called /\ calls >= 2
    /\ service_info.service_name = SvcItems
    /\ ItemsLen = 1

\* the items Add Child appended to the request tree in this step
NewItems == { request_tree'[k] : k \in (Len(request_tree) + 1)..Len(request_tree') }
NewLeafPaths == { it.data : it \in { n \in NewItems : n.expr # "" } }

----------------------------------------------------------------------------
(* Properties of the context menu (specification Spec) *)

\* C11: Remove on an element of an array, in either tree, emits the one
\* diagnostic 'not supported' and changes nothing: both trees (the element, its
\* siblings and all paths), the expressions dict and the counter stay as
\* they were.
C11_RemoveDoesNothing ==
    [][ lastOp' \in { "remove", "remove_response" } =>
          /\ diag' = << RemoveWarning >>
          /\ request_tree' = request_tree
          /\ response_tree' = response_tree
          /\ service_info' = service_info ]_vars

C11_Witness ==
    /\ lastOp = "remove"
    /\ diag = << RemoveWarning >>
    /\ Len(request_tree) = 8
    /\ CanRemoveChild(request_tree, 6)
    /\ Has(KeyX0, "0")

\* the first message of the bag whose type is not type_name (0 if none)
FirstMismatch(type_name, bag) ==
    LET S == { k \in 1..Len(bag) : bag[k] # type_name }
    IN  IF S = {} THEN 0 ELSE CHOOSE k \in S : \A j \in S : k <= j

\* C12: loading a bag that holds a message whose type differs from the type
\* of the target item reports the mismatch (for the first such message, after
\* which the loop ends), raises nothing and changes neither tree nor the
\* expressions dict.
C12_LoadMismatchReported ==
    [][ lastOp' = "load" =>
          /\ request_tree' = request_tree
          /\ response_tree' = response_tree
          /\ service_info' = service_info
          /\ \/ diag' = << [warn |-> "uncaught exception"] >>
             \/ \E type_name \in LoadableTypes(request_tree)
                                     \cup LoadableTypes(response_tree) :
                \E bag \in LoadBags : diag' = LoadMessages(type_name, bag, 1)
          /\ \A type_name \in LoadableTypes(request_tree)
                                  \cup LoadableTypes(response_tree) :
             \A bag \in LoadBags :
                FirstMismatch(type_name, bag) # 0 =>
                  LET d == LoadMessages(type_name, bag, 1)
                      k == FirstMismatch(type_name, bag)
                  IN  /\ Len(d) = k
                      /\ d[k] = MismatchWarning(type_name, bag[k])
                      /\ \A j \in 1..(k - 1) : d[j] = LoadWarning ]_vars

C12_Witness ==
    /\ lastOp = "load"
    /\ diag = << LoadWarning, MismatchWarning(<<"demo/Hdr">>, <<"demo/Item">>) >>
    /\ Len(request_tree) = 8
    /\ Has(KeyX0, "0")

\* C13: whenever a session exists its counter is 0, whatever sequence of
\* refresh, selection, edit, Add Child, Remove, Load and invocation led to
\* the state.
C13_CounterStaysZero == service_info # None => service_info.counter = 0

C13_Witness ==
    /\ lastOp = "remove"
    /\ service_info # None /\ service_info.counter = 0
    /\ Has(KeyN, "40") /\ Has(KeyX0, "0")
    /\ Len(response_tree) > 0

----------------------------------------------------------------------------
(* Properties of the growth scan (specification FillSpec) *)

\* key has prefix as a prefix
IsPrefix(prefix, key) ==
    Len(prefix) <= Len(key) /\ SubSeq(key, 1, Len(prefix)) = prefix

RECURSIVE ScanLengthFrom(_, _, _)
\* the least index j >= i such that no key of the dict has K[j] as a prefix
ScanLengthFrom(expressions, K, i) ==
    IF \E key \in DOMAIN expressions : IsPrefix(K \o << "[", Str(i), "]" >>, key)
    THEN ScanLengthFrom(expressions, K, i + 1)
    ELSE i

\* C14: after reconstructing a fresh default request, the length of the
\* array field with slot key K is the least i such that no key of the dict
\* has K[i] as a prefix, also when the dict holds keys of other fields or an
\* entry for K itself; checked for /svc/items and, inside its element 0, for
\* /svc/items[0]/sub.
C14_LengthIsScanLength ==
    (Filled /\ service_info.service_name = SvcItems) =>
        /\ IsList(request.fields.items)
        /\ ItemsLen = ScanLengthFrom(Expressions, KeyItems, 0)
        /\ ItemsLen >= 1 =>
             Len(request.fields.items.list[1].fields.sub.list) =
                 ScanLengthFrom(Expressions,
                                KeyItems \o << "[", "0", "]", "/", "sub" >>, 0)

----------------------------------------------------------------------------
(* Properties of the trees and the session (specification Spec) *)

\* C16: every item of the response tree is non-editable, after any sequence
\* of invocations and context menu actions.
C16_ResponseTreeReadOnly ==
    \A j \in 1..Len(response_tree) : ~response_tree[j].editable

\* C17: whenever a session exists (the one an invocation would use), the
\* request tree has a root item whose path is the session's service name.
C17_TreeAndSessionAgree ==
    service_info # None =>
        /\ Len(request_tree) >= 1
        /\ request_tree[1].parent = 0
        /\ request_tree[1].data = service_info.service_name

----------------------------------------------------------------------------
(* Properties of the request tree (specification TreeSpec) *)

\* the number of siblings created before item j: its index among the
\* children of its parent
Rank(j) ==
    Cardinality({ k \in 1..(j - 1) : request_tree[k].parent = request_tree[j].parent })

\* the path the parent's path and the item's place give item j
ExpectedPath(j) ==
    LET p == request_tree[j].parent
    IN  IF EndsWithBrackets(request_tree[p].type)
        THEN request_tree[p].data \o << "[", Str(Rank(j)), "]" >>
        ELSE request_tree[p].data \o << "/" >> \o request_tree[j].text0

\* C15: in the request tree all paths are distinct, the path of a field's
\* item is parent_path + "/" + field_name, and the path of the k-th child
\* (from 0) Add Child gave an array item is the array item's path + "[k]".
C15_PathsFollowParents ==
    /\ \A j, k \in 1..Len(request_tree) :
           j # k => request_tree[j].data # request_tree[k].data
    /\ \A j \in 1..Len(request_tree) :
           request_tree[j].parent # 0 => request_tree[j].data = ExpectedPath(j)

====
